---- MODULE Spec2Model ----
(***************************************************************************)
(* A model of the sarama-consumer group client (src/consumer.go):          *)
(*   - the round-robin partitioner (RoundRobin.Partition),                 *)
(*   - one topic worker (consumer.run) with its partition readers          *)
(*     (partition.run), the application reading Messages and calling Done, *)
(*     and the group coordinator's offset store.                           *)
(***************************************************************************)
EXTENDS Integers, Sequences, FiniteSets, TLC

(***************************************************************************)
(* Bounds of the model.                                                    *)
(***************************************************************************)
MaxMembers == 3
MaxPartitions == 4
MaxGen == 3
MaxOutstanding == 1
MaxReads == 2
MaxOtherCommits == 1
MaxConErrors == 1
MaxJoins == 2

(***************************************************************************)
(* Program constants.                                                      *)
(***************************************************************************)
\* the 64 of "partition.offset += 64", "index := int(delta) >> 6" and
\* "append(partition.buckets, 64)"
BucketSize == 64
\* buckets is a []uint8
Uint8 == 256
\* errors: make(chan error, 10)
ErrorsCap == 10

VARIABLES
    \* ---- RoundRobin.Partition: its inputs and its result
    by_member,      \* jresp.GetMembers(): member -> [Version, Topics]
    order,          \* the order in which "range by_member" visits the members
    topicParts,     \* topic -> number of partitions client.Partitions returns
    partErr,        \* topics for which client.Partitions returns an error
    sreq,           \* the group assignments added to the SyncGroupRequest
    rrErr,          \* TRUE when Partition returned an error
    rrpc,           \* "joined" before Partition ran, "synced" after
    \* ---- the topic worker (consumer.run)
    partitions,     \* owned partition -> [offset, oldest, buckets]
    generation_id,  \* the worker's current generation
    assignments,    \* con.assignments, a channel of capacity 1
    wpc,            \* "off" | "main" | "deliver" | "panicking" | "removing" |
                    \* "crashed"; inside assignment(): "remove" | "adopt" |
                    \* "fetch" | "start"
    msg,            \* the message the delivery loop is sending, or NoMsg
    closed,         \* con.closed: "nil" | "open" | "closed"
    close_once,     \* TRUE once close_once.Do has run
    chansOpen,      \* con.messages and con.errors are not yet closed
    panic,          \* "" or the runtime panic that ended the program
    \* ---- partition readers (partition.run)
    reader,         \* partition -> offset of the message its reader is sending
    stale,          \* messages held by readers whose partition was removed
    \* ---- the application
    unacked,        \* messages read from Messages and not yet passed to Done
    reads,          \* number of messages the application has read so far
    scenario,       \* "rebalance": both partitions assigned, few reads;
                    \* "acks": one partition assigned, a bucket's worth of reads;
                    \* "stale": as "acks", and the member that owned the
                    \* partition in between consumed a whole bucket
    \* ---- the group coordinator
    committed,      \* partition -> the offset OffsetFetch returns
    otherCommits,   \* number of commits made by other members so far
    \* ---- history (what happened, for the properties)
    commits,        \* partition -> the last OffsetCommit block sent for it
    hStart,         \* partition -> offset its current reader was started at
    hDelivered,     \* partition -> offsets delivered since its reader started
    hAcked,         \* partition -> offsets passed to Done since then
    hAckCount,      \* partition -> number of Done since then (saturating)
    lastSent,       \* partition -> offset of its last delivery, or -1
    \* ---- the client's manager goroutine (client.run) and its callers
    cpc,            \* "off" | "coord" | "join" | "sync" | "steady" | "pause" |
                    \* "refresh" | "exited" | "crashed"; in the handoff also
                    \* "distribute" | "inner" | "resend" | "heartbeat"
    pause,          \* the local variable pause
    early_rc,       \* "waiting": NewClient waits on rc; "ok": nil was sent;
                    \* "failed": an error was sent and client.run returned
    cl_closed,      \* cl.closed: "open" | "closed"
    consumers,      \* the topics of the map consumers
    workers,        \* topic -> "none" | "running" | "removing" (its goroutine)
    slots,          \* topics whose con.assignments holds an assignment
    cl_errors,      \* number of errors buffered in cl.errors
    errors_closed,  \* cl.errors is closed
    con_errors,     \* topic -> errors sent on the worker's own Errors channel
    resp,           \* the last broker request and the error of its response
    reply,          \* the last reply to a Consume call
    first_join,     \* outcome of the first Join attempt: "none" until it ended,
                    \* then "ok" or what failed
    cl_panic,       \* "" or the runtime panic that ended the program
    \* ---- the handoff of a generation, step by step: client.run from the
    \* ---- Join response to the heartbeat loop, and assignment() of the worker
    cl_generation_id,   \* client.run's generation_id (jresp.GenerationId)
    cl_member_id,       \* client.run's member_id (jresp.MemberId)
    cl_coor,            \* client.run's coor
    cl_a,               \* the assignment a client.run built after the Sync
    heartbeat_timer,    \* "none" | "armed": time.After was called and has not fired
    hb_out,             \* the Heartbeat requests sent and not yet answered
    coor,               \* the worker's coor
    member_id,          \* the worker's member_id
    cur,                \* the call of assignment(a) in progress or last made:
                        \* a, added, removed, what the worker held before
                        \* and the offsets FetchOffset returned
    ops,                \* the broker requests, reader operations and
                        \* deliverError calls of that call
    \* ---- a call of difference
    d_old,          \* the argument old
    d_next,         \* the argument next
    d_out           \* the results added and removed, once it was called

rrVars == <<by_member, order, topicParts, partErr, sreq, rrErr, rrpc>>
workerVars == <<partitions, generation_id, assignments, wpc, msg, closed,
                close_once, chansOpen, panic>>
envVars == <<reader, stale, unacked, reads, scenario, committed, otherCommits>>
histVars == <<commits, hStart, hDelivered, hAcked, hAckCount, lastSent>>
clVars == <<cpc, pause, early_rc, cl_closed, consumers, workers, slots, cl_errors,
            errors_closed, con_errors, resp, reply, first_join, cl_panic>>
genVars == <<cl_generation_id, cl_member_id, cl_coor, cl_a, heartbeat_timer, hb_out,
             coor, member_id, cur, ops>>
diffVars == <<d_old, d_next, d_out>>
vars == <<rrVars, workerVars, envVars, histVars, clVars, genVars, diffVars>>

(***************************************************************************)
(* RoundRobin.Partition                                                    *)
(***************************************************************************)
MemberIds == 1..MaxMembers
Topics == {"t1", "t2"}

\* all orders in which a Go map with the keys S can be ranged over
Perms(S) ==
    {s \in [1..Cardinality(S) -> S] : \A i, j \in 1..Cardinality(S) : s[i] = s[j] => i = j}

\* client.Partitions(topic): the partition ids, sorted
ClientPartitions(n) == [i \in 1..n |-> i - 1]

\* by_topic[topic]: the version-1 members requesting the topic, in range order
ByTopic(bm, ord, t) ==
    SelectSeq(ord, LAMBDA m : bm[m].Version = 1 /\ t \in bm[m].Topics)

\* 0-based position of m in the sequence s
IndexOf(s, m) == (CHOOSE i \in 1..Len(s) : s[i] = m) - 1

InSeq(s, x) == \E i \in 1..Len(s) : s[i] = x

\* the error return of Partition: some requested topic's metadata lookup failed
PartitionFails(bm, ord, perr) ==
    \E t \in Topics : Len(ByTopic(bm, ord, t)) > 0 /\ t \in perr

\* the assignments map built by the loop "for i, member_id := range members"
RoundRobinPartition(bm, ord, tp) ==
    LET gets(m, t) == InSeq(ByTopic(bm, ord, t), m) /\ tp[t] > 0
        assigned == {m \in DOMAIN bm : \E t \in Topics : gets(m, t)}
    IN  [m \in assigned |->
            [t \in {u \in Topics : gets(m, u)} |->
                <<ClientPartitions(tp[t])[(IndexOf(ByTopic(bm, ord, t), m) % tp[t]) + 1]>>]]

\* the partitions of topic t the Sync request gives to member m
Assigned(m, t) ==
    IF m \in DOMAIN sreq /\ t \in DOMAIN sreq[m] THEN sreq[m][t] ELSE <<>>

SeqToSet(s) == {s[i] : i \in 1..Len(s)}


(***************************************************************************)
(* The topic worker: pure parts of consumer.run                            *)
(***************************************************************************)
\* the partitions of the worker's topic
Parts == {0, 1}

NoMsg == [partition |-> -1, offset |-> -1]

\* a reader that has handed over every message of its stream so far
Idle == -1

\* sort.Sort of the keys of a map
RECURSIVE SortedSeq(_)
SortedSeq(S) ==
    IF S = {} THEN <<>>
    ELSE LET m == CHOOSE x \in S : \A y \in S : x <= y
         IN  <<m>> \o SortedSeq(S \ {m})

\* the merge loop of difference, with o and n sorted
RECURSIVE Merge(_, _, _, _, _, _)
Merge(o, n, i, j, added, removed) ==
    IF i <= Len(o) /\ j <= Len(n)
    THEN IF o[i] < n[j] THEN Merge(o, n, i + 1, j, added, Append(removed, o[i]))
         ELSE IF o[i] > n[j] THEN Merge(o, n, i, j + 1, Append(added, n[j]), removed)
         ELSE Merge(o, n, i + 1, j + 1, added, removed)
    ELSE [added |-> added \o SubSeq(n, j, Len(n)),
          removed |-> removed \o SubSeq(o, i, Len(o))]

\* a difference that leaves next as the caller passed it
difference_Unsorted(old, next) ==
    Merge(SortedSeq(DOMAIN old), next, 1, 1, <<>>, <<>>)

\* a difference that reports every owned partition removed and every
\* assigned partition added
difference_All(old, next) ==
    [added |-> SortSeq(next, LAMBDA a, b : a < b), removed |-> SortedSeq(DOMAIN old)]

\* difference(old map[int32]*partition, next []int32) (added, removed)
difference(old, next) ==
    Merge(SortedSeq(DOMAIN old), SortSeq(next, LAMBDA a, b : a < b), 1, 1, <<>>, <<>>)

\* delta := partition.oldest - msg.Offset
Delta(pt, m) == pt.oldest - m.offset

\* index := int(delta) >> 6, for delta >= 0
BucketIndex(delta) == delta \div BucketSize

\* for index >= len(partition.buckets) { buckets = append(buckets, 64) }
Extend(buckets, index) ==
    IF index >= Len(buckets)
    THEN buckets \o [k \in 1..(index + 1 - Len(buckets)) |-> BucketSize]
    ELSE buckets

\* what "case msg := <-con.premessages" does with the raw message m:
\* the verdict, and the partitions map afterwards
Receive(ps, m) ==
    IF m.partition \notin DOMAIN ps
    THEN [verdict |-> "stale", parts |-> ps]
    ELSE LET pt == ps[m.partition]
             delta == Delta(pt, m)
         IN  IF delta < 0
             THEN [verdict |-> "dropped", parts |-> ps]
             ELSE [verdict |-> "deliver",
                   parts |-> [ps EXCEPT ![m.partition].buckets =
                                            Extend(@, BucketIndex(delta))]]

\* a delivery loop that ends with the send and returns to the main select
AfterSend_Return == "main"

\* where the delivery loop goes after "case con.messages <- msg": the break
\* leaves the select only, so the loop sends msg again
AfterSend == "deliver"

\* a tracker that steps the committable offset back by a bucket
AdvanceOffset_Back(offset) == offset - BucketSize

\* partition.offset += 64
AdvanceOffset(offset) == offset + BucketSize

\* the loop "for partition.buckets[0] == 0 {...}" of done; indexing an empty
\* buckets panics (index out of range)
RECURSIVE Advance(_)
Advance(pt) ==
    IF Len(pt.buckets) = 0 THEN [part |-> pt, panic |-> TRUE]
    ELSE IF pt.buckets[1] = 0
         THEN Advance([offset |-> AdvanceOffset(pt.offset),
                       oldest |-> AdvanceOffset(pt.offset),
                       buckets |-> Tail(pt.buckets)])
         ELSE [part |-> pt, panic |-> FALSE]

\* done(msg): the partitions map afterwards, and whether it panicked
done(ps, m) ==
    IF m.partition \notin DOMAIN ps
    THEN [parts |-> ps, panic |-> FALSE]
    ELSE LET pt == ps[m.partition]
             delta == Delta(pt, m)
             index == BucketIndex(delta)
         IN  IF delta < 0 \/ index >= Len(pt.buckets)
             THEN [parts |-> ps, panic |-> FALSE]
             ELSE LET dec == [pt EXCEPT !.buckets[index + 1] = (@ + Uint8 - 1) % Uint8]
                  IN  IF index = 0
                      THEN LET r == Advance(dec)
                           IN  [parts |-> [ps EXCEPT ![m.partition] = r.part],
                                panic |-> r.panic]
                      ELSE [parts |-> [ps EXCEPT ![m.partition] = dec],
                            panic |-> FALSE]

\* the worker Consume builds: closed is never made, so it is a nil channel
Consume == [closed |-> "nil", close_once |-> FALSE, assignments |-> <<>>]

(***************************************************************************)
(* The specification of the partitioner: Init draws a Join response and    *)
(* the topic metadata, the one action runs RoundRobin.Partition.           *)
(***************************************************************************)
\* no broker response yet
NoResp == [req |-> "none", err |-> "none", leader |-> FALSE, part |-> "none"]

\* no client was constructed
ClientOff ==
    /\ cpc = "off" /\ pause = FALSE /\ early_rc = "waiting" /\ cl_closed = "open"
    /\ consumers = {} /\ workers = <<>> /\ slots = {}
    /\ cl_errors = 0 /\ errors_closed = FALSE /\ con_errors = <<>>
    /\ resp = NoResp /\ reply = "none" /\ first_join = "none" /\ cl_panic = ""

\* no assignment was made and none was handled
NoAssignment ==
    [generation_id |-> 0, coordinator |-> "none", member_id |-> "", parts |-> <<>>]

\* no call of assignment() yet
NoCall ==
    [a |-> NoAssignment, added |-> <<>>, removed |-> <<>>, before |-> <<>>,
     prev |-> NoAssignment, fetched |-> <<>>, ret |-> "main"]

\* no generation was handed over
HandoffOff ==
    /\ cl_generation_id = 0 /\ cl_member_id = "" /\ cl_coor = "none"
    /\ cl_a = NoAssignment
    /\ heartbeat_timer = "none" /\ hb_out = <<>>
    /\ coor = "none" /\ member_id = ""
    /\ cur = NoCall /\ ops = <<>>

\* difference was not called
NoResult == [called |-> FALSE, added |-> <<>>, removed |-> <<>>]

DiffOff == d_old = <<>> /\ d_next = <<>> /\ d_out = NoResult

WorkerOff ==
    /\ partitions = <<>> /\ generation_id = 0 /\ assignments = <<>>
    /\ wpc = "off" /\ msg = [partition |-> -1, offset |-> -1]
    /\ closed = "nil" /\ close_once = FALSE /\ chansOpen = TRUE /\ panic = ""
    /\ reader = <<>> /\ stale = {} /\ unacked = <<>>
    /\ reads = 0 /\ scenario = "none"
    /\ committed = <<>> /\ otherCommits = 0
    /\ commits = <<>> /\ hStart = <<>> /\ hDelivered = <<>> /\ hAcked = <<>>
    /\ hAckCount = <<>> /\ lastSent = <<>>

InitRR ==
    /\ \E joined \in (SUBSET MemberIds) \ {{}} :
          /\ by_member \in [joined -> [Version : {1, 2}, Topics : SUBSET Topics]]
          /\ order \in Perms(joined)
    /\ topicParts \in [Topics -> 0..MaxPartitions]
    /\ partErr \in {{}, {"t2"}}
    /\ sreq = <<>>
    /\ rrErr = FALSE
    /\ rrpc = "joined"
    /\ WorkerOff
    /\ ClientOff
    /\ HandoffOff /\ DiffOff

\* the leader's call cl.config.Partitioner.Partition(sreq, jresp, cl.client)
Partition ==
    /\ rrpc = "joined"
    /\ rrpc' = "synced"
    /\ IF PartitionFails(by_member, order, partErr)
       THEN rrErr' = TRUE /\ sreq' = <<>>
       ELSE rrErr' = FALSE /\ sreq' = RoundRobinPartition(by_member, order, topicParts)
    /\ UNCHANGED <<by_member, order, topicParts, partErr>>
    /\ UNCHANGED <<workerVars, envVars, histVars, clVars, genVars, diffVars>>

NextRR == Partition

SpecRR == InitRR /\ [][NextRR]_vars

(***************************************************************************)
(* The topic worker, its readers, the application and the coordinator.     *)
(***************************************************************************)
\* the program is running: no unrecovered panic has ended it yet
Alive == wpc \in {"main", "deliver", "panicking", "removing"}

\* what the environment does in a behaviour: how many generations the client
\* distributes (with a bucket's worth of reads the three in which a partition
\* is owned, lost and owned again) and how many messages the application reads
GenLimit == IF scenario \in {"acks", "stale"} THEN 3 ELSE MaxGen
ReadLimit == IF scenario \in {"acks", "stale"} THEN BucketSize + MaxReads ELSE MaxReads

\* the worker is in one of its two selects
Selecting == Alive /\ wpc \in {"main", "deliver"}

\* no OffsetCommit block was sent for the partition yet
NoCommit == [off |-> -1, prev |-> -1, start |-> -1, delivered |-> {}, acked |-> {},
             full |-> FALSE, how |-> "none"]

\* a commit of the offset after the committable one
BlockOffset_Next(pt) == pt.offset + 1

\* the offset of the block "ocreq.AddBlock(con.topic, p, partition.offset, 0, "")"
BlockOffset(pt) == pt.offset

\* the OffsetCommit blocks remove() adds: one per removed partition it owns
CommitBlocks(ps, removedSet, okc, how) ==
    [p \in Parts |->
        IF p \in removedSet /\ p \in DOMAIN ps
        THEN [off |-> BlockOffset(ps[p]), prev |-> commits[p].off, start |-> hStart[p],
              delivered |-> hDelivered[p], acked |-> hAcked[p],
              full |-> hAckCount[p] >= BucketSize, how |-> how]
        ELSE commits[p]]

\* the coordinator stores the offsets of the blocks it accepted
Store(ps, okc) ==
    [p \in Parts |->
        IF p \in okc /\ p \in DOMAIN ps THEN BlockOffset(ps[p]) ELSE committed[p]]

\* partition.consumer.Close() for the removed partitions: a reader blocked on
\* "con.premessages <- msg" keeps the message it holds
StaleAfter(removedSet) ==
    stale \cup {[partition |-> p, offset |-> reader[p]] :
                    p \in {q \in removedSet \cap DOMAIN reader : reader[q] # Idle}}

\* the lists a.assignments[con.topic] of the assignments the client
\* distributes: any of the topic's partitions, or partition 0 only in the
\* behaviours with a bucket's worth of reads
NewPartitions ==
    IF scenario \in {"acks", "stale"} THEN {<<>>, <<0>>}
    ELSE {<<>>, <<0>>, <<1>>, <<1, 0>>}

\* client.run hands a new generation's assignment to the worker: the slot of
\* con.assignments is filled, a stale assignment in it is replaced
Distribute ==
    /\ Alive
    /\ LET last == IF Len(assignments) > 0 THEN Head(assignments).generation_id
                   ELSE generation_id
       IN  /\ last < GenLimit
           /\ \E np \in NewPartitions :
                 assignments' = <<[generation_id |-> last + 1, parts |-> np]>>
    /\ UNCHANGED <<partitions, generation_id, wpc, msg, closed, close_once,
                   chansOpen, panic>>
    /\ UNCHANGED <<rrVars, clVars, genVars, diffVars, envVars, histVars>>

\* by how much the commits of the member that owned a partition in between
\* moved its offset
OtherSteps == IF scenario = "stale" THEN {0, BucketSize} ELSE {0, 1}

\* by how much the offset of the first message a new reader produces lies
\* above the offset it was started at (a compacted log has holes)
Gaps == {0, 1}

\* "case a := <-con.assignments: assignment(a)" of either select.
\* okc: the removed partitions whose commit the coordinator stored (none on a
\* transport error); started: the added partitions whose fetch block is
\* present and free of error and whose reader started (none when FetchOffset
\* fails); other: what the members that owned the added partitions until now
\* committed for them; first: the first message of each new reader.
HandleAssignment ==
    /\ Selecting
    /\ Len(assignments) > 0
    /\ LET a == Head(assignments)
           d == difference(partitions, a.parts)
           removedSet == SeqToSet(d.removed)
           keep == DOMAIN partitions \ removedSet
       IN  \E okc \in SUBSET removedSet :
           \E started \in SUBSET SeqToSet(d.added) :
           \E other \in [started -> OtherSteps] :
           \E first \in [started -> Gaps] :
              LET moved == Cardinality({p \in started : other[p] # 0})
                  stored == [p \in Parts |->
                               IF p \in started THEN committed[p] + other[p]
                               ELSE Store(partitions, okc)[p]]
                  owned == keep \cup started
              IN  /\ otherCommits + moved <= MaxOtherCommits
                  /\ otherCommits' = otherCommits + moved
                  /\ commits' = CommitBlocks(partitions, removedSet, okc, "rebalance")
                  /\ committed' = stored
                  /\ stale' = StaleAfter(removedSet)
                  /\ partitions' =
                        [p \in owned |->
                            IF p \in keep THEN partitions[p]
                            ELSE [offset |-> stored[p], oldest |-> stored[p],
                                  buckets |-> <<>>]]
                  /\ reader' = [p \in owned |->
                                   IF p \in keep THEN reader[p] ELSE stored[p] + first[p]]
                  /\ hStart' = [p \in owned |-> IF p \in keep THEN hStart[p] ELSE stored[p]]
                  /\ hDelivered' = [p \in owned |-> IF p \in keep THEN hDelivered[p] ELSE {}]
                  /\ hAcked' = [p \in owned |-> IF p \in keep THEN hAcked[p] ELSE {}]
                  /\ hAckCount' = [p \in owned |-> IF p \in keep THEN hAckCount[p] ELSE 0]
                  /\ generation_id' = a.generation_id
    /\ assignments' = Tail(assignments)
    /\ UNCHANGED <<wpc, msg, closed, close_once, chansOpen, panic>>
    /\ UNCHANGED <<rrVars, clVars, genVars, diffVars, unacked, reads, scenario, lastSent>>

\* "case msg := <-con.premessages" of the main select
Premessage(m) ==
    LET r == Receive(partitions, m)
    IN  /\ partitions' = r.parts
        /\ IF r.verdict = "deliver"
           THEN wpc' = "deliver" /\ msg' = m
           ELSE UNCHANGED <<wpc, msg>>

\* a running partition reader hands its message to the worker and takes the
\* next one of its stream
RecvFromReader ==
    /\ Alive /\ wpc = "main"
    /\ \E p \in DOMAIN reader :
          /\ reader[p] # Idle
          /\ Premessage([partition |-> p, offset |-> reader[p]])
          /\ reader' = [reader EXCEPT ![p] = IF @ < hStart[p] + 1 THEN @ + 1 ELSE Idle]
    /\ UNCHANGED <<generation_id, assignments, closed, close_once, chansOpen, panic>>
    /\ UNCHANGED <<rrVars, clVars, genVars, diffVars, stale, unacked, reads, scenario, committed, otherCommits>>
    /\ UNCHANGED <<commits, hStart, hDelivered, hAcked, hAckCount, lastSent>>

\* a reader whose partition was removed hands over the message it still held
RecvFromStale ==
    /\ Alive /\ wpc = "main"
    /\ \E m \in stale :
          /\ Premessage(m)
          /\ stale' = stale \ {m}
    /\ UNCHANGED <<generation_id, assignments, closed, close_once, chansOpen, panic>>
    /\ UNCHANGED <<rrVars, clVars, genVars, diffVars, reader, unacked, reads, scenario, committed, otherCommits>>
    /\ UNCHANGED <<commits, hStart, hDelivered, hAcked, hAckCount, lastSent>>

\* "case con.messages <- msg" of the delivery loop: the application reads msg
SendMessage ==
    /\ Alive /\ wpc = "deliver"
    /\ Len(unacked) < MaxOutstanding
    /\ reads < ReadLimit
    /\ reads' = reads + 1
    /\ unacked' = Append(unacked, msg)
    /\ wpc' = AfterSend
    /\ msg' = IF AfterSend = "deliver" THEN msg ELSE NoMsg
    /\ hDelivered' = IF msg.partition \in DOMAIN hDelivered
                     THEN [hDelivered EXCEPT ![msg.partition] = @ \cup {msg.offset}]
                     ELSE hDelivered
    /\ lastSent' = [lastSent EXCEPT ![msg.partition] = msg.offset]
    /\ UNCHANGED <<partitions, generation_id, assignments, closed, close_once,
                   chansOpen, panic>>
    /\ UNCHANGED <<rrVars, clVars, genVars, diffVars, reader, stale, scenario, committed, otherCommits>>
    /\ UNCHANGED <<commits, hStart, hAcked, hAckCount>>

\* the application passes a message it read to Done, and the worker runs
\* done(msg) in either select; a panic in done unwinds consumer.run
HandleDone ==
    /\ Selecting
    /\ \E i \in 1..Len(unacked) :
          LET m == unacked[i]
              r == done(partitions, m)
          IN  /\ unacked' = SubSeq(unacked, 1, i - 1) \o SubSeq(unacked, i + 1, Len(unacked))
              /\ partitions' = r.parts
              /\ hAcked' = [p \in DOMAIN hAcked |->
                              IF p = m.partition THEN hAcked[p] \cup {m.offset}
                              ELSE hAcked[p]]
              /\ hAckCount' = [p \in DOMAIN hAckCount |->
                                 IF p = m.partition /\ hAckCount[p] < BucketSize
                                 THEN hAckCount[p] + 1 ELSE hAckCount[p]]
              /\ IF r.panic
                 THEN wpc' = "panicking" /\ panic' = "index out of range" /\ msg' = NoMsg
                 ELSE UNCHANGED <<wpc, panic, msg>>
    /\ UNCHANGED <<generation_id, assignments, closed, close_once, chansOpen>>
    /\ UNCHANGED <<rrVars, clVars, genVars, diffVars, reader, stale, reads, scenario, committed, otherCommits>>
    /\ UNCHANGED <<commits, hStart, hDelivered, lastSent>>

\* the deferred function of consumer.run: remove() for every partition still
\* owned, then con.messages and con.errors are closed and the worker blocks
\* on "con.cl.rem_consumer <- con"
Cleanup ==
    /\ Alive /\ wpc = "panicking"
    /\ LET all == DOMAIN partitions
       IN  \E okc \in SUBSET all :
              /\ commits' = CommitBlocks(partitions, all, okc, "exit")
              /\ committed' = Store(partitions, okc)
              /\ stale' = StaleAfter(all)
    /\ partitions' = <<>>
    /\ reader' = <<>>
    /\ hStart' = <<>> /\ hDelivered' = <<>> /\ hAcked' = <<>> /\ hAckCount' = <<>>
    /\ chansOpen' = FALSE
    /\ wpc' = "removing"
    /\ UNCHANGED <<generation_id, assignments, msg, closed, close_once, panic>>
    /\ UNCHANGED <<rrVars, clVars, genVars, diffVars, unacked, reads, scenario, otherCommits, lastSent>>

\* an unrecovered panic ends the program: its goroutines and their memory are
\* gone (what the coordinator stored stays)
Exit ==
    /\ wpc' = "crashed"
    /\ partitions' = <<>> /\ generation_id' = 0 /\ assignments' = <<>>
    /\ msg' = NoMsg
    /\ reader' = <<>> /\ stale' = {} /\ unacked' = <<>>
    /\ hStart' = <<>> /\ hDelivered' = <<>> /\ hAcked' = <<>> /\ hAckCount' = <<>>

\* client.run takes the worker from rem_consumer; the deferred function
\* returns and the panic ends the program
ClientRem ==
    /\ Alive /\ wpc = "removing"
    /\ Exit
    /\ UNCHANGED <<closed, close_once, chansOpen, panic>>
    /\ UNCHANGED <<rrVars, clVars, genVars, diffVars, reads, scenario, committed, otherCommits, commits, lastSent>>

\* con.AsyncClose(): close_once.Do(func() { close(con.closed) }); closing a
\* nil channel panics
AsyncClose ==
    /\ Alive
    /\ close_once' = TRUE
    /\ IF close_once
       THEN UNCHANGED <<closed, panic, partitions, generation_id, assignments, wpc,
                       msg, chansOpen, reader, stale, unacked, hStart, hDelivered,
                       hAcked, hAckCount>>
       ELSE IF closed = "nil"
            THEN /\ panic' = "close of nil channel"
                 /\ Exit
                 /\ UNCHANGED <<closed, chansOpen>>
            ELSE /\ closed' = "closed"
                 /\ UNCHANGED <<panic, partitions, generation_id, assignments, wpc,
                                msg, chansOpen, reader, stale, unacked, hStart,
                                hDelivered, hAcked, hAckCount>>
    /\ UNCHANGED <<rrVars, clVars, genVars, diffVars, reads, scenario, committed, otherCommits, commits, lastSent>>

\* the state after client.Consume(topic) started the worker's goroutine
Init ==
    /\ by_member = <<>> /\ order = <<>> /\ topicParts = <<>> /\ partErr = {}
    /\ sreq = <<>> /\ rrErr = FALSE /\ rrpc = "off"
    /\ partitions = <<>>
    /\ generation_id = 0
    /\ assignments = Consume.assignments
    /\ wpc = "main"
    /\ msg = NoMsg
    /\ closed = Consume.closed
    /\ close_once = Consume.close_once
    /\ chansOpen = TRUE
    /\ panic = ""
    /\ reader = <<>>
    /\ stale = {}
    /\ unacked = <<>>
    /\ reads = 0
    /\ scenario \in {"rebalance", "acks"}
    /\ committed = [p \in Parts |-> 0]
    /\ otherCommits = 0
    /\ commits = [p \in Parts |-> NoCommit]
    /\ hStart = <<>> /\ hDelivered = <<>> /\ hAcked = <<>> /\ hAckCount = <<>>
    /\ lastSent = [p \in Parts |-> -1]
    /\ ClientOff
    /\ HandoffOff /\ DiffOff

Next ==
    \/ Distribute
    \/ HandleAssignment
    \/ RecvFromReader
    \/ RecvFromStale
    \/ SendMessage
    \/ HandleDone
    \/ Cleanup
    \/ ClientRem
    \/ AsyncClose

Spec == Init /\ [][Next]_vars

\* the goroutines of the worker, its readers and the application are scheduled
FairSpec == Spec /\ WF_vars(Next)

\* the same worker in a group whose other members consume whole buckets of a
\* partition while they own it
InitStale ==
    /\ by_member = <<>> /\ order = <<>> /\ topicParts = <<>> /\ partErr = {}
    /\ sreq = <<>> /\ rrErr = FALSE /\ rrpc = "off"
    /\ partitions = <<>>
    /\ generation_id = 0
    /\ assignments = Consume.assignments
    /\ wpc = "main"
    /\ msg = NoMsg
    /\ closed = Consume.closed
    /\ close_once = Consume.close_once
    /\ chansOpen = TRUE
    /\ panic = ""
    /\ reader = <<>>
    /\ stale = {}
    /\ unacked = <<>>
    /\ reads = 0
    /\ scenario = "stale"
    /\ committed = [p \in Parts |-> 0]
    /\ otherCommits = 0
    /\ commits = [p \in Parts |-> NoCommit]
    /\ hStart = <<>> /\ hDelivered = <<>> /\ hAcked = <<>> /\ hAckCount = <<>>
    /\ lastSent = [p \in Parts |-> -1]
    /\ ClientOff
    /\ HandoffOff /\ DiffOff

SpecStale == InitStale /\ [][Next]_vars

(***************************************************************************)
(* The client's manager goroutine (client.run), the application calling    *)
(* Consume and Close, and the topic workers as the client sees them.       *)
(***************************************************************************)
\* client.run is running: it neither returned nor was ended by a panic
Running == cpc \in {"coord", "join", "sync", "steady", "pause", "refresh"}

\* deliverError: a non-blocking send on cl.errors, dropped when the buffer is full
deliverError(n) == IF n < ErrorsCap THEN n + 1 ELSE n

\* a broker response
Resp(req, err) == [NoResp EXCEPT !.req = req, !.err = err]

\* "if early_rc != nil { early_rc <- err; return }", else deliverError, and
\* the position next goes on at with pause set
FailOrReport(next) ==
    IF early_rc = "waiting"
    THEN /\ early_rc' = "failed" /\ cpc' = "exited"
         /\ UNCHANGED <<pause, cl_errors>>
    ELSE /\ cl_errors' = deliverError(cl_errors)
         /\ cpc' = next
         /\ pause' = (next = "refresh")
         /\ UNCHANGED early_rc

\* an unrecovered panic ends the program
Crash(why) ==
    /\ cpc' = "crashed" /\ cl_panic' = why
    /\ workers' = [t \in DOMAIN workers |-> "none"]
    /\ slots' = {}

otherVars == <<rrVars, workerVars, envVars, histVars, genVars, diffVars>>

\* cl.client.Coordinator(cl.group_name)
Coordinator ==
    /\ cpc = "coord"
    /\ \E err \in {"none", "transport"} :
          /\ resp' = Resp("Coordinator", err)
          /\ first_join' = IF first_join = "none" /\ err # "none" THEN "coordinator"
                            ELSE first_join
          /\ IF err = "none"
             THEN cpc' = "join" /\ UNCHANGED <<pause, early_rc, cl_errors>>
             ELSE FailOrReport("refresh")
    /\ UNCHANGED <<cl_closed, consumers, workers, slots, errors_closed, con_errors,
                   reply, cl_panic>>
    /\ UNCHANGED otherVars

\* coor.JoinGroup(jreq) and what follows it up to the SyncGroup request: the
\* reply to NewClient and, for the leader, Partitioner.Partition
JoinGroup ==
    /\ cpc = "join"
    /\ \E err \in {"none", "transport", "NotCoordinator", "code"} :
       \E leader \in BOOLEAN :
       \E part \in {"ok", "failed"} :
          /\ first_join' = IF first_join # "none" THEN first_join
                            ELSE IF err = "none" THEN "ok" ELSE err
          /\ IF err \in {"transport", "NotCoordinator"}
             THEN /\ resp' = Resp("JoinGroup", err)
                  /\ cpc' = "refresh"
                  /\ UNCHANGED <<pause, early_rc, cl_errors>>
             ELSE IF err = "code"
             THEN /\ resp' = Resp("JoinGroup", err)
                  /\ FailOrReport("pause")
             ELSE /\ early_rc' = "ok"
                  /\ pause' = FALSE
                  /\ IF leader
                     THEN /\ resp' = [Resp("JoinGroup", err) EXCEPT !.leader = TRUE,
                                                                    !.part = part]
                          /\ cl_errors' = IF part = "failed" THEN deliverError(cl_errors)
                                          ELSE cl_errors
                          /\ cpc' = "pause"
                     ELSE /\ resp' = Resp("JoinGroup", err)
                          /\ cpc' = "sync"
                          /\ UNCHANGED cl_errors
    /\ UNCHANGED <<cl_closed, consumers, workers, slots, errors_closed, con_errors,
                   reply, cl_panic>>
    /\ UNCHANGED otherVars

\* coor.SyncGroup(sreq), ParseSync and the distribution of the assignment to
\* the workers. On a transport error the response is nil (sresp.Err panics)
\* or a response without error code.
SyncGroup ==
    /\ cpc = "sync"
    /\ \E err \in {"none", "transport", "NotCoordinator", "code", "parse"} :
       \E nilresp \in BOOLEAN :
          /\ resp' = Resp("SyncGroup", err)
          /\ IF err = "none"
             THEN /\ slots' = consumers
                  /\ cpc' = "steady"
                  /\ UNCHANGED <<cl_errors, cl_panic, workers>>
             ELSE IF err = "transport" /\ nilresp
             THEN /\ Crash("nil pointer dereference")
                  /\ UNCHANGED cl_errors
             ELSE /\ cl_errors' = deliverError(cl_errors)
                  /\ cpc' = "pause"
                  /\ UNCHANGED <<slots, cl_panic, workers>>
    /\ UNCHANGED <<pause, early_rc, cl_closed, consumers, errors_closed, con_errors, reply>>
    /\ UNCHANGED <<first_join, otherVars>>

\* "case <-heartbeat_timer" of the heartbeat loop: coor.Heartbeat
Heartbeat ==
    /\ cpc = "steady"
    /\ \E err \in {"none", "transport", "NotCoordinator", "code"} :
          /\ resp' = Resp("Heartbeat", err)
          /\ cpc' = IF err = "none" THEN "steady"
                    ELSE IF err = "code" THEN "coord" ELSE "refresh"
    /\ UNCHANGED <<pause, early_rc, cl_closed, consumers, workers, slots, cl_errors,
                   errors_closed, con_errors, reply, cl_panic>>
    /\ UNCHANGED <<first_join, otherVars>>

\* "case <-timeout" of the pause loop
PauseTimeout ==
    /\ cpc = "pause"
    /\ cpc' = "coord"
    /\ UNCHANGED <<pause, early_rc, cl_closed, consumers, workers, slots, cl_errors,
                   errors_closed, con_errors, resp, reply, cl_panic>>
    /\ UNCHANGED <<first_join, otherVars>>

\* cl.client.RefreshCoordinator(cl.group_name), then the top of the loop
RefreshCoordinator ==
    /\ cpc = "refresh"
    /\ \E err \in {"none", "transport"} :
          /\ resp' = Resp("RefreshCoordinator", err)
          /\ IF err = "none"
             THEN /\ cpc' = IF pause THEN "pause" ELSE "coord"
                  /\ pause' = FALSE
                  /\ UNCHANGED <<early_rc, cl_errors>>
             ELSE FailOrReport("pause")
    /\ UNCHANGED <<cl_closed, consumers, workers, slots, errors_closed, con_errors,
                   reply, cl_panic>>
    /\ UNCHANGED <<first_join, otherVars>>

\* "case <-cl.closed" of the pause loop and of the heartbeat loop (there after
\* coor.LeaveGroup): shutdown() and return. shutdown calls AsyncClose of every
\* worker, which closes the nil channel con.closed.
CloseObserved ==
    /\ cpc \in {"pause", "steady"}
    /\ cl_closed = "closed"
    /\ \E err \in {"none", "code"} :
          /\ cpc = "pause" => err = "none"
          /\ resp' = IF cpc = "steady" THEN Resp("LeaveGroup", err) ELSE resp
          /\ cl_errors' = IF err = "none" THEN cl_errors ELSE deliverError(cl_errors)
    /\ IF consumers = {}
       THEN /\ errors_closed' = TRUE
            /\ cpc' = "exited"
            /\ UNCHANGED <<workers, slots, cl_panic>>
       ELSE /\ Crash("close of nil channel")
            /\ UNCHANGED errors_closed
    /\ UNCHANGED <<pause, early_rc, cl_closed, consumers, con_errors, reply>>
    /\ UNCHANGED <<first_join, otherVars>>

\* cl.Close(), called by the application once NewClient has returned:
\* close(cl.closed), which panics when the channel is closed already
Close ==
    /\ early_rc # "waiting"
    /\ cpc # "crashed"
    /\ IF cl_closed = "open"
       THEN /\ cl_closed' = "closed"
            /\ UNCHANGED <<cpc, cl_panic, workers, slots>>
       ELSE /\ Crash("close of closed channel")
            /\ UNCHANGED cl_closed
    /\ UNCHANGED <<pause, early_rc, consumers, cl_errors, errors_closed, con_errors,
                   resp, reply>>
    /\ UNCHANGED <<first_join, otherVars>>

\* an add that never finds the topic in the map
AlreadyConsumed_Never(cons, t) == FALSE

\* the check of add: "if _, ok := consumers[add.con.topic]; ok"
AlreadyConsumed(cons, t) == t \in cons

\* cl.Consume(topic) and "case a := <-cl.add_consumer: add(a)" of the pause
\* loop and of the heartbeat loop, which then rejoins
ConsumeCall(t) ==
    /\ cpc \in {"pause", "steady"}
    /\ \E err \in {"none", "consumer"} :
          IF AlreadyConsumed(consumers, t)
          THEN /\ reply' = "already consumed"
               /\ UNCHANGED <<consumers, workers, con_errors>>
          ELSE IF err # "none"
          THEN /\ reply' = "no consumer"
               /\ UNCHANGED <<consumers, workers, con_errors>>
          ELSE /\ reply' = "ok"
               /\ consumers' = consumers \cup {t}
               /\ workers' = [workers EXCEPT ![t] = "running"]
               /\ con_errors' = [con_errors EXCEPT ![t] = 0]
    /\ cpc' = IF cpc = "steady" THEN "coord" ELSE cpc
    /\ UNCHANGED <<pause, early_rc, cl_closed, slots, cl_errors, errors_closed, resp,
                   cl_panic>>
    /\ UNCHANGED <<first_join, otherVars>>

\* Consume of any topic
ConsumeTopic == \E t \in Topics : ConsumeCall(t)

\* a worker takes the assignment from con.assignments and commits the offsets
\* of the partitions it lost: commit errors go through con.cl.deliverError
WorkerCommits(t, err) ==
    /\ cpc # "crashed"
    /\ t \in slots
    /\ workers[t] = "running"
    /\ slots' = slots \ {t}
    /\ resp' = Resp("OffsetCommit", err)
    /\ cl_errors' = IF err = "none" THEN cl_errors ELSE deliverError(cl_errors)
    /\ UNCHANGED <<cpc, pause, early_rc, cl_closed, consumers, workers, errors_closed,
                   con_errors, reply, cl_panic>>
    /\ UNCHANGED <<first_join, otherVars>>

\* remove() of any worker, with any outcome of its OffsetCommit
WorkerCommit ==
    \E t \in Topics : \E err \in {"none", "transport", "code"} : WorkerCommits(t, err)

\* partition.run passes an error of its partition consumer to con.errors and
\* the application reads it
PartitionError ==
    /\ cpc # "crashed"
    /\ \E t \in consumers :
          /\ workers[t] = "running"
          /\ con_errors[t] < MaxConErrors
          /\ con_errors' = [con_errors EXCEPT ![t] = @ + 1]
    /\ UNCHANGED <<cpc, pause, early_rc, cl_closed, consumers, workers, slots, cl_errors,
                   errors_closed, resp, reply, cl_panic>>
    /\ UNCHANGED <<first_join, otherVars>>

\* done() of a worker panics; its deferred function runs up to
\* "con.cl.rem_consumer <- con"
WorkerPanics ==
    /\ cpc # "crashed"
    /\ \E t \in consumers :
          /\ workers[t] = "running"
          /\ workers' = [workers EXCEPT ![t] = "removing"]
    /\ UNCHANGED <<cpc, pause, early_rc, cl_closed, consumers, slots, cl_errors,
                   errors_closed, con_errors, resp, reply, cl_panic>>
    /\ UNCHANGED <<first_join, otherVars>>

\* "case r := <-cl.rem_consumer: rem(r)" of the pause loop and of the
\* heartbeat loop; the worker's deferred function returns and its panic ends
\* the program
RemConsumer ==
    /\ cpc \in {"pause", "steady"}
    /\ \E t \in consumers :
          /\ workers[t] = "removing"
          /\ consumers' = consumers \ {t}
    /\ Crash("index out of range")
    /\ UNCHANGED <<pause, early_rc, cl_closed, cl_errors, errors_closed, con_errors,
                   resp, reply>>
    /\ UNCHANGED <<first_join, otherVars>>

\* the application reads an error from cl.Errors()
ReadError ==
    /\ cpc # "crashed"
    /\ cl_errors > 0
    /\ cl_errors' = cl_errors - 1
    /\ UNCHANGED <<cpc, pause, early_rc, cl_closed, consumers, workers, slots,
                   errors_closed, con_errors, resp, reply, cl_panic>>
    /\ UNCHANGED <<first_join, otherVars>>

\* the state after NewClient started client.run
InitCl ==
    /\ by_member = <<>> /\ order = <<>> /\ topicParts = <<>> /\ partErr = {}
    /\ sreq = <<>> /\ rrErr = FALSE /\ rrpc = "off"
    /\ WorkerOff
    /\ cpc = "coord" /\ pause = FALSE /\ early_rc = "waiting" /\ cl_closed = "open"
    /\ consumers = {} /\ workers = [t \in Topics |-> "none"] /\ slots = {}
    /\ cl_errors = 0 /\ errors_closed = FALSE /\ con_errors = [t \in Topics |-> 0]
    /\ resp = NoResp /\ reply = "none" /\ first_join = "none" /\ cl_panic = ""
    /\ HandoffOff /\ DiffOff

\* the steps of client.run
ClientStep ==
    \/ Coordinator
    \/ JoinGroup
    \/ SyncGroup
    \/ Heartbeat
    \/ PauseTimeout
    \/ RefreshCoordinator
    \/ CloseObserved

NextCl ==
    \/ ClientStep
    \/ Close
    \/ ConsumeTopic
    \/ WorkerCommit
    \/ PartitionError
    \/ WorkerPanics
    \/ RemConsumer
    \/ ReadError

SpecCl == InitCl /\ [][NextCl]_vars

\* the goroutine of client.run is scheduled and its timers fire; a select
\* that finds cl.closed ready again and again takes that case at some point
FairSpecCl == SpecCl /\ WF_vars(ClientStep) /\ SF_vars(CloseObserved)

(***************************************************************************)
(* difference on its own: Init draws a map of owned partitions and a       *)
(* duplicate-free list of assigned partitions, the one action calls it.    *)
(***************************************************************************)
\* the partition ids of a topic
PartitionIds == 0..(MaxPartitions - 1)

\* the lists without duplicates of the elements of S, in every order
DistinctLists(S) == UNION {Perms(T) : T \in SUBSET S}

\* a partition as assignment() creates it, at fetched offset 0
NewPartition == [offset |-> 0, oldest |-> 0, buckets |-> <<>>]

InitDiff ==
    /\ by_member = <<>> /\ order = <<>> /\ topicParts = <<>> /\ partErr = {}
    /\ sreq = <<>> /\ rrErr = FALSE /\ rrpc = "off"
    /\ WorkerOff
    /\ ClientOff
    /\ HandoffOff
    /\ d_old \in {[p \in A |-> NewPartition] : A \in SUBSET PartitionIds}
    /\ d_next \in DistinctLists(PartitionIds)
    /\ d_out = NoResult

\* added, removed := difference(partitions, new_partitions)
Difference ==
    /\ ~d_out.called
    /\ d_out' = [called |-> TRUE,
                 added |-> difference(d_old, d_next).added,
                 removed |-> difference(d_old, d_next).removed]
    /\ UNCHANGED <<d_old, d_next>>
    /\ UNCHANGED <<rrVars, workerVars, envVars, histVars, clVars, genVars>>

NextDiff == Difference

SpecDiff == InitDiff /\ [][NextDiff]_vars

(***************************************************************************)
(* The handoff of a generation, step by step: client.run joins, syncs,     *)
(* hands the assignment to the worker through con.assignments and sends    *)
(* heartbeats; the worker runs assignment(a) request by request.           *)
(***************************************************************************)
\* what a Join may come back with: the member-id and coordinator the client
\* had, or a new member-id from a new coordinator
JoinResponses ==
    {[member_id |-> "m1", coordinator |-> "b1"],
     [member_id |-> "m2", coordinator |-> "b2"]}

\* cap(con.assignments)
AssignmentsCap == 1

\* the lists a.assignments[con.topic] ParseSync may return
HandoffPartitions == {<<>>, <<0>>, <<1>>, <<1, 0>>}

\* a := &assignment{generation_id, coordinator: coor, member_id, assignments}
NewAssignment(np) ==
    [generation_id |-> cl_generation_id, coordinator |-> cl_coor,
     member_id |-> cl_member_id, parts |-> np]

\* Coordinator and JoinGroup succeed: "member_id = jresp.MemberId" and
\* "generation_id := jresp.GenerationId"
HandoffJoin ==
    /\ cpc = "join"
    /\ cl_generation_id <= MaxJoins
    /\ \E jresp \in JoinResponses :
          /\ cl_generation_id' = cl_generation_id + 1
          /\ cl_member_id' = jresp.member_id
          /\ cl_coor' = jresp.coordinator
    /\ cpc' = "sync"
    /\ UNCHANGED <<cl_a, heartbeat_timer, hb_out, coor, member_id, cur, ops>>
    /\ UNCHANGED <<pause, early_rc, cl_closed, consumers, workers, slots, cl_errors,
                   errors_closed, con_errors, resp, reply, first_join, cl_panic>>
    /\ UNCHANGED <<rrVars, workerVars, envVars, histVars, diffVars>>

\* SyncGroup and ParseSync: on success the assignment a is built, on an error
\* the client joins again
HandoffSync ==
    /\ cpc = "sync"
    /\ \E ok \in BOOLEAN : \E np \in HandoffPartitions :
          IF ok
          THEN cl_a' = NewAssignment(np) /\ cpc' = "distribute"
          ELSE cl_a' = cl_a /\ cpc' = "join"
    /\ UNCHANGED <<cl_generation_id, cl_member_id, cl_coor, heartbeat_timer, hb_out,
                   coor, member_id, cur, ops>>
    /\ UNCHANGED <<pause, early_rc, cl_closed, consumers, workers, slots, cl_errors,
                   errors_closed, con_errors, resp, reply, first_join, cl_panic>>
    /\ UNCHANGED <<rrVars, workerVars, envVars, histVars, diffVars>>

\* the distribution is over: "heartbeat_timer := time.After(...)" and the
\* heartbeat loop
EnterHeartbeatLoop ==
    /\ cpc' = "steady"
    /\ heartbeat_timer' = "armed"

\* the outer select of the distribution: "case con.assignments <- a" when
\* there is room, else the default case
TrySend ==
    /\ cpc = "distribute"
    /\ IF Len(assignments) < AssignmentsCap
       THEN assignments' = Append(assignments, cl_a) /\ EnterHeartbeatLoop
       ELSE cpc' = "inner" /\ UNCHANGED <<assignments, heartbeat_timer>>
    /\ UNCHANGED <<cl_generation_id, cl_member_id, cl_coor, cl_a, hb_out,
                   coor, member_id, cur, ops>>
    /\ UNCHANGED <<pause, early_rc, cl_closed, consumers, workers, slots, cl_errors,
                   errors_closed, con_errors, resp, reply, first_join, cl_panic>>
    /\ UNCHANGED <<partitions, generation_id, wpc, msg, closed, close_once,
                   chansOpen, panic>>
    /\ UNCHANGED <<rrVars, envVars, histVars, diffVars>>

\* a receive that takes nothing out of the channel
AfterReceive_Nothing(q) == q

\* "case <-con.assignments": the stale assignment leaves the channel
AfterReceive(q) == Tail(q)

\* the inner select: "case <-con.assignments" when the stale assignment is
\* still there, "case con.assignments <- a" when the worker took it meanwhile
InnerSelect ==
    /\ cpc = "inner"
    /\ IF Len(assignments) > 0
       THEN /\ assignments' = AfterReceive(assignments)
            /\ cpc' = "resend"
            /\ UNCHANGED heartbeat_timer
       ELSE /\ assignments' = Append(assignments, cl_a)
            /\ EnterHeartbeatLoop
    /\ UNCHANGED <<cl_generation_id, cl_member_id, cl_coor, cl_a, hb_out,
                   coor, member_id, cur, ops>>
    /\ UNCHANGED <<pause, early_rc, cl_closed, consumers, workers, slots, cl_errors,
                   errors_closed, con_errors, resp, reply, first_join, cl_panic>>
    /\ UNCHANGED <<partitions, generation_id, wpc, msg, closed, close_once,
                   chansOpen, panic>>
    /\ UNCHANGED <<rrVars, envVars, histVars, diffVars>>

\* "con.assignments <- a" after the receive: it blocks while the channel is full
Resend ==
    /\ cpc = "resend"
    /\ Len(assignments) < AssignmentsCap
    /\ assignments' = Append(assignments, cl_a)
    /\ EnterHeartbeatLoop
    /\ UNCHANGED <<cl_generation_id, cl_member_id, cl_coor, cl_a, hb_out,
                   coor, member_id, cur, ops>>
    /\ UNCHANGED <<pause, early_rc, cl_closed, consumers, workers, slots, cl_errors,
                   errors_closed, con_errors, resp, reply, first_join, cl_panic>>
    /\ UNCHANGED <<partitions, generation_id, wpc, msg, closed, close_once,
                   chansOpen, panic>>
    /\ UNCHANGED <<rrVars, envVars, histVars, diffVars>>

\* &sarama.HeartbeatRequest{GroupId, MemberId: member_id, GenerationId: generation_id}
HeartbeatRequest ==
    [member_id |-> cl_member_id, generation_id |-> cl_generation_id]

\* a timer that is armed again as soon as it fired
TimerAfterFire_Armed == "armed"

\* the channel of time.After delivers once
TimerAfterFire == "none"

\* "case <-heartbeat_timer": coor.Heartbeat(...) is called
SendHeartbeat ==
    /\ cpc = "steady"
    /\ heartbeat_timer = "armed"
    /\ heartbeat_timer' = TimerAfterFire
    /\ hb_out' = Append(hb_out, HeartbeatRequest)
    /\ cpc' = "heartbeat"
    /\ UNCHANGED <<cl_generation_id, cl_member_id, cl_coor, cl_a, coor, member_id,
                   cur, ops>>
    /\ UNCHANGED <<pause, early_rc, cl_closed, consumers, workers, slots, cl_errors,
                   errors_closed, con_errors, resp, reply, first_join, cl_panic>>
    /\ UNCHANGED <<rrVars, workerVars, envVars, histVars, diffVars>>

\* coor.Heartbeat returns: without error the next timer is armed, with an
\* error the client leaves the heartbeat loop and joins again
HeartbeatResponse ==
    /\ cpc = "heartbeat"
    /\ Len(hb_out) > 0
    /\ hb_out' = Tail(hb_out)
    /\ \E err \in BOOLEAN :
          IF err
          THEN cpc' = "join" /\ UNCHANGED heartbeat_timer
          ELSE cpc' = "steady" /\ heartbeat_timer' = "armed"
    /\ UNCHANGED <<cl_generation_id, cl_member_id, cl_coor, cl_a, coor, member_id,
                   cur, ops>>
    /\ UNCHANGED <<pause, early_rc, cl_closed, consumers, workers, slots, cl_errors,
                   errors_closed, con_errors, resp, reply, first_join, cl_panic>>
    /\ UNCHANGED <<rrVars, workerVars, envVars, histVars, diffVars>>

\* "case a := <-cl.add_consumer" and "case r := <-cl.rem_consumer" of the
\* heartbeat loop, for another topic: continue join_loop
HandoffRejoin ==
    /\ cpc = "steady"
    /\ cl_generation_id <= MaxJoins
    /\ cpc' = "join"
    /\ heartbeat_timer' = "none"
    /\ UNCHANGED <<cl_generation_id, cl_member_id, cl_coor, cl_a, hb_out, coor,
                   member_id, cur, ops>>
    /\ UNCHANGED <<pause, early_rc, cl_closed, consumers, workers, slots, cl_errors,
                   errors_closed, con_errors, resp, reply, first_join, cl_panic>>
    /\ UNCHANGED <<rrVars, workerVars, envVars, histVars, diffVars>>

\* an assignment() that fetches and starts the new partitions first
StepAfter_FetchFirst(step) ==
    CASE step = "take" -> "fetch"
      [] step = "fetch" -> "start"
      [] step = "start" -> "remove"
      [] step = "remove" -> "adopt"
      [] OTHER -> "done"

\* the order of the statements of assignment(): difference, remove(removed),
\* the three assignments to generation_id, coor and member_id, FetchOffset,
\* the loop over added
StepAfter(step) ==
    CASE step = "take" -> "remove"
      [] step = "remove" -> "adopt"
      [] step = "adopt" -> "fetch"
      [] step = "fetch" -> "start"
      [] OTHER -> "done"

\* where the worker goes on: at the next statement, or back in the select
\* that called assignment()
Goto(step) == IF step = "done" THEN cur.ret ELSE step

\* an operation of assignment() on a reader or a request to a broker
Op(op, parts, offsets, gen, member, broker) ==
    [op |-> op, parts |-> parts, offsets |-> offsets, generation_id |-> gen,
     member_id |-> member, coordinator |-> broker]

\* an OffsetCommit that carries the new generation and goes to its coordinator
OffsetCommitRequest_New(ps, removed) ==
    Op("commit", removed, [i \in 1..Len(removed) |-> BlockOffset(ps[removed[i]])],
       cur.a.generation_id, cur.a.member_id, cur.a.coordinator)

\* ocreq of remove(): ConsumerGroupGeneration: generation_id, ConsumerID:
\* member_id, one block per removed partition, sent with coor.CommitOffset
OffsetCommitRequest(ps, removed) ==
    Op("commit", removed, [i \in 1..Len(removed) |-> BlockOffset(ps[removed[i]])],
       generation_id, member_id, coor)

\* "case a := <-con.assignments: assignment(a)" of either select, up to
\* "added, removed := difference(partitions, new_partitions)"
TakeAssignment ==
    /\ wpc \in {"main", "deliver"}
    /\ Len(assignments) > 0
    /\ LET a == Head(assignments)
           d == difference(partitions, a.parts)
       IN  cur' = [a |-> a, added |-> d.added, removed |-> d.removed,
                   before |-> partitions,
                   prev |-> [generation_id |-> generation_id, coordinator |-> coor,
                             member_id |-> member_id,
                             parts |-> cur.a.parts],
                   fetched |-> <<>>,
                   ret |-> wpc]
    /\ assignments' = Tail(assignments)
    /\ ops' = <<>>
    /\ wpc' = StepAfter("take")
    /\ UNCHANGED <<cl_generation_id, cl_member_id, cl_coor, cl_a, heartbeat_timer,
                   hb_out, coor, member_id>>
    /\ UNCHANGED <<partitions, generation_id, msg, closed, close_once, chansOpen, panic>>
    /\ UNCHANGED <<rrVars, clVars, envVars, histVars, diffVars>>

\* remove(removed): each removed partition is deleted from the map and its
\* reader closed, then the one OffsetCommit is sent; the coordinator stores
\* the blocks it accepts
RemoveStep ==
    /\ wpc = "remove"
    /\ LET removed == cur.removed
           removedSet == SeqToSet(removed)
           keep == DOMAIN partitions \ removedSet
       IN  IF Len(removed) # 0
           THEN \E okc \in SUBSET removedSet :
                   /\ ops' = ops \o [i \in 1..Len(removed) |->
                                        Op("close", <<removed[i]>>, <<>>, 0, "", "none")]
                                 \o <<OffsetCommitRequest(partitions, removed)>>
                   /\ partitions' = [p \in keep |-> partitions[p]]
                   /\ reader' = [p \in keep |-> reader[p]]
                   /\ hStart' = [p \in keep |-> hStart[p]]
                   /\ stale' = StaleAfter(removedSet)
                   /\ committed' = Store(partitions, okc)
           ELSE UNCHANGED <<ops, partitions, reader, hStart, stale, committed>>
    /\ wpc' = Goto(StepAfter("remove"))
    /\ UNCHANGED <<cl_generation_id, cl_member_id, cl_coor, cl_a, heartbeat_timer,
                   hb_out, coor, member_id, cur>>
    /\ UNCHANGED <<generation_id, assignments, msg, closed, close_once, chansOpen, panic>>
    /\ UNCHANGED <<unacked, reads, scenario, otherCommits>>
    /\ UNCHANGED <<commits, hDelivered, hAcked, hAckCount, lastSent>>
    /\ UNCHANGED <<rrVars, clVars, diffVars>>

\* generation_id = a.generation_id; coor = a.coordinator; member_id = a.member_id
Adopt ==
    /\ wpc = "adopt"
    /\ generation_id' = cur.a.generation_id
    /\ coor' = cur.a.coordinator
    /\ member_id' = cur.a.member_id
    /\ wpc' = Goto(StepAfter("adopt"))
    /\ UNCHANGED <<cl_generation_id, cl_member_id, cl_coor, cl_a, heartbeat_timer,
                   hb_out, cur, ops>>
    /\ UNCHANGED <<partitions, assignments, msg, closed, close_once, chansOpen, panic>>
    /\ UNCHANGED <<rrVars, clVars, envVars, histVars, diffVars>>

\* con.cl.deliverError(...) for the partitions parts
ErrorOp(parts) == Op("error", parts, <<>>, 0, "", "none")

\* a.coordinator.FetchOffset(oreq) for the added partitions: the response
\* holds what the coordinator stores for them, which the members that owned
\* them until now may have moved; on an error the error is delivered and none
\* of them is started
FetchStep ==
    /\ wpc = "fetch"
    /\ \E err \in BOOLEAN :
          IF err
          THEN /\ ops' = ops \o <<Op("fetch", cur.added, <<>>, 0, "", cur.a.coordinator),
                                  ErrorOp(cur.added)>>
               /\ wpc' = Goto(StepAfter("start"))
               /\ UNCHANGED <<cur, committed, otherCommits>>
          ELSE \E other \in [SeqToSet(cur.added) -> OtherSteps] :
                  LET moved == Cardinality({p \in DOMAIN other : other[p] # 0})
                      stored == [p \in Parts |->
                                    IF p \in DOMAIN other THEN committed[p] + other[p]
                                    ELSE committed[p]]
                  IN  /\ otherCommits + moved <= MaxOtherCommits
                      /\ otherCommits' = otherCommits + moved
                      /\ committed' = stored
                      /\ cur' = [cur EXCEPT !.fetched =
                                    [p \in SeqToSet(cur.added) |-> stored[p]]]
                      /\ ops' = Append(ops, Op("fetch", cur.added, <<>>, 0, "",
                                               cur.a.coordinator))
                      /\ wpc' = Goto(StepAfter("fetch"))
    /\ UNCHANGED <<cl_generation_id, cl_member_id, cl_coor, cl_a, heartbeat_timer,
                   hb_out, coor, member_id>>
    /\ UNCHANGED <<partitions, generation_id, assignments, msg, closed, close_once,
                   chansOpen, panic>>
    /\ UNCHANGED <<reader, stale, unacked, reads, scenario>>
    /\ UNCHANGED <<rrVars, clVars, histVars, diffVars>>

\* a partition that starts at the beginning of the log whatever was fetched
StartedAt_Zero(offset) == [offset |-> 0, oldest |-> 0, buckets |-> <<>>]

\* &partition{consumer: consumer, offset: offset.Offset, oldest: offset.Offset}
StartedAt(offset) == [offset |-> offset, oldest |-> offset, buckets |-> <<>>]

\* the loop over added: a partition whose block is present and free of error
\* and whose ConsumePartition succeeds is put in the map at the fetched offset
\* and its reader started there; for any other the error is delivered and
\* the loop continues
StartStep ==
    /\ wpc = "start"
    /\ \E started \in SUBSET SeqToSet(cur.added) :
          LET owned == DOMAIN partitions \cup started
          IN  /\ ops' = ops \o [i \in 1..Len(cur.added) |->
                                   IF cur.added[i] \in started
                                   THEN Op("start", <<cur.added[i]>>,
                                           <<StartedAt(cur.fetched[cur.added[i]]).offset>>,
                                           0, "", "none")
                                   ELSE ErrorOp(<<cur.added[i]>>)]
              /\ partitions' = [p \in owned |->
                                   IF p \in started THEN StartedAt(cur.fetched[p])
                                   ELSE partitions[p]]
              /\ reader' = [p \in owned |->
                               IF p \in started THEN StartedAt(cur.fetched[p]).offset
                               ELSE reader[p]]
              /\ hStart' = [p \in owned |->
                               IF p \in started THEN StartedAt(cur.fetched[p]).offset
                               ELSE hStart[p]]
    /\ wpc' = Goto(StepAfter("start"))
    /\ UNCHANGED <<cl_generation_id, cl_member_id, cl_coor, cl_a, heartbeat_timer,
                   hb_out, coor, member_id, cur>>
    /\ UNCHANGED <<generation_id, assignments, msg, closed, close_once, chansOpen, panic>>
    /\ UNCHANGED <<stale, unacked, reads, scenario, committed, otherCommits>>
    /\ UNCHANGED <<commits, hDelivered, hAcked, hAckCount, lastSent>>
    /\ UNCHANGED <<rrVars, clVars, diffVars>>

\* the state after Consume started the worker of a topic in the heartbeat
\* loop of the client's first generation: the client joins again
InitHandoff ==
    /\ by_member = <<>> /\ order = <<>> /\ topicParts = <<>> /\ partErr = {}
    /\ sreq = <<>> /\ rrErr = FALSE /\ rrpc = "off"
    /\ partitions = <<>> /\ generation_id = 0 /\ assignments = Consume.assignments
    /\ wpc = "main" /\ msg = NoMsg
    /\ closed = Consume.closed /\ close_once = Consume.close_once
    /\ chansOpen = TRUE /\ panic = ""
    /\ reader = <<>> /\ stale = {} /\ unacked = <<>> /\ reads = 0
    /\ scenario = "handoff"
    /\ committed = [p \in Parts |-> 0] /\ otherCommits = 0
    /\ commits = [p \in Parts |-> NoCommit]
    /\ hStart = <<>> /\ hDelivered = <<>> /\ hAcked = <<>> /\ hAckCount = <<>>
    /\ lastSent = [p \in Parts |-> -1]
    /\ cpc = "join" /\ pause = FALSE /\ early_rc = "ok" /\ cl_closed = "open"
    /\ consumers = {"t1"}
    /\ workers = [t \in Topics |-> IF t = "t1" THEN "running" ELSE "none"]
    /\ slots = {} /\ cl_errors = 0 /\ errors_closed = FALSE
    /\ con_errors = [t \in Topics |-> 0]
    /\ resp = NoResp /\ reply = "ok" /\ first_join = "ok" /\ cl_panic = ""
    /\ cl_generation_id = 1 /\ cl_member_id = "m1" /\ cl_coor = "b1"
    /\ cl_a = NoAssignment
    /\ heartbeat_timer = "none" /\ hb_out = <<>>
    /\ coor = "none" /\ member_id = ""
    /\ cur = NoCall /\ ops = <<>>
    /\ DiffOff

NextHandoff ==
    \/ HandoffJoin
    \/ HandoffSync
    \/ TrySend
    \/ InnerSelect
    \/ Resend
    \/ SendHeartbeat
    \/ HeartbeatResponse
    \/ HandoffRejoin
    \/ TakeAssignment
    \/ RemoveStep
    \/ Adopt
    \/ FetchStep
    \/ StartStep
    \/ RecvFromReader

SpecHandoff == InitHandoff /\ [][NextHandoff]_vars

(***************************************************************************)
(* Claims about the partitioner.                                           *)
(***************************************************************************)
\* the version-1 members requesting topic t, sorted by member-id
SortedRequesters(t) ==
    SortSeq(ByTopic(by_member, order, t), LAMBDA a, b : a < b)

\* C1: the partition lists the Sync request holds for two different members
\* of a topic are disjoint (no partition of a topic is given to two members).
C1_Disjoint ==
    rrpc = "synced" =>
        \A t \in Topics : \A m1, m2 \in MemberIds :
            m1 # m2 => SeqToSet(Assigned(m1, t)) \cap SeqToSet(Assigned(m2, t)) = {}

\* C2: every partition of a requested topic is assigned: with the requesting
\* version-1 members sorted by member-id, partition index j goes to member
\* j mod M.
C2_Covers ==
    (rrpc = "synced" /\ ~rrErr) =>
        \A t \in Topics :
            LET ms == SortedRequesters(t)
            IN  Len(ms) > 0 =>
                    \A j \in 0..(topicParts[t] - 1) :
                        j \in SeqToSet(Assigned(ms[(j % Len(ms)) + 1], t))

(***************************************************************************)
(* Claims about the topic worker.                                          *)
(***************************************************************************)
\* a commit block for partition p is sent in this step
Commits(p) == commits'[p] # commits[p]

\* partition p is owned before and after this step
StaysOwned(p) == p \in DOMAIN partitions /\ p \in DOMAIN partitions'

\* C3: the offsets sent in OffsetCommit requests for one partition never
\* decrease, a commit is never below the offset the reader was started at, and
\* the committable offset of an owned partition never decreases.
C3_MonotoneCommits ==
    [][\A p \in Parts :
          /\ Commits(p) =>
                /\ commits'[p].off >= commits'[p].start
                /\ commits[p].how # "none" => commits'[p].off >= commits[p].off
          /\ StaysOwned(p) => partitions'[p].offset >= partitions[p].offset]_vars

\* C3 witness: a partition was committed at a removal, owned again, its
\* committable offset advanced and a second, larger commit was sent for it.
C3_Witness ==
    \E p \in Parts :
        /\ commits[p].how = "exit"
        /\ commits[p].prev >= 0
        /\ commits[p].off > commits[p].prev

\* C4: every offset between the offset the reader was started at and a
\* committed offset was delivered to the application before the commit.
C4_NoCommitAheadOfDelivery ==
    \A p \in Parts :
        commits[p].how # "none" =>
            \A o \in commits[p].start..(commits[p].off - 1) : o \in commits[p].delivered

\* C5: no message delivered since the partition's reader was started and not
\* yet acknowledged lies below the committable offset.
C5_AckedBelowCommittable ==
    \A p \in DOMAIN partitions :
        \A o \in hDelivered[p] : o < partitions[p].offset => o \in hAcked[p]

\* the number k of offsets start, start+1, ... that were all acknowledged
RECURSIVE AckedPrefix(_, _)
AckedPrefix(o, acked) == IF o \in acked THEN 1 + AckedPrefix(o + 1, acked) ELSE 0

\* C6 as stated: the commit sent when a partition is removed at a rebalance is
\* at least start + k when the offsets start .. start+k-1 were delivered and
\* acknowledged.
C6_CommitsAckedPrefix ==
    \A p \in Parts :
        commits[p].how = "rebalance" =>
            commits[p].off >=
                commits[p].start + AckedPrefix(commits[p].start,
                                               commits[p].acked \cap commits[p].delivered)

\* C6 amended: the commit sent when a partition is removed at a rebalance
\* carries the committable offset, which after fewer than 64 acknowledgements
\* is still the offset the reader was started at; the next generation that
\* owns the partition starts its reader at that offset or at a later one
\* another member committed in between.
C6_CommitsWholeBuckets ==
    \A p \in Parts :
        (commits[p].how = "rebalance" /\ ~commits[p].full) =>
            /\ commits[p].off = commits[p].start
            /\ committed[p] >= commits[p].off
            /\ p \in DOMAIN partitions => hStart[p] >= commits[p].off

\* C6 witness: a message was delivered and acknowledged, and its partition
\* was then removed at a rebalance.
C6_Witness ==
    \E p \in Parts :
        /\ commits[p].how = "rebalance"
        /\ commits[p].start \in commits[p].acked \cap commits[p].delivered

TakesFromReader(p) ==
    /\ wpc = "main"
    /\ p \in DOMAIN reader /\ p \in DOMAIN reader'
    /\ reader'[p] # reader[p]

\* the worker takes the message m a stopped reader still held
TakesFromStale(m) ==
    /\ wpc = "main" /\ wpc' # "crashed"
    /\ m \in stale /\ m \notin stale'

\* what C8 says of a raw message m of an owned partition: dropped when below
\* oldest, otherwise the buckets reach its index and it is being delivered
DeliveredIffNotBelowOldest(m) ==
    LET pt == partitions[m.partition]
    IN  IF m.offset < pt.oldest
        THEN wpc' = "main"
        ELSE /\ wpc' = "deliver"
             /\ msg' = m
             /\ Len(partitions'[m.partition].buckets) >
                    (m.offset - pt.oldest) \div BucketSize

\* C8: a raw message of an owned partition is dropped when its offset is
\* below oldest and is otherwise delivered, with the buckets extended to its
\* index.
C8_DeliversAtOrAboveOldest ==
    [][/\ \A p \in Parts :
             TakesFromReader(p) =>
                 DeliveredIffNotBelowOldest([partition |-> p, offset |-> reader[p]])
       /\ \A m \in stale :
             (TakesFromStale(m) /\ m.partition \in DOMAIN partitions) =>
                 DeliveredIffNotBelowOldest(m)]_vars

C10_AsyncCloseSafe ==
    /\ panic # "close of nil channel"
    /\ close_once => closed = "closed"

\* C11: once AsyncClose was called on a worker, the worker eventually has
\* stopped all its partitions (committing them in its cleanup) and closed its
\* Messages and Errors channels.
C11_CloseCompletes ==
    close_once ~> (partitions = <<>> /\ ~chansOpen)

(***************************************************************************)
(* Claims about the client.                                                *)
(***************************************************************************)
\* client.run sees the close signal in this step and runs shutdown()
ObservesClose ==
    /\ cl_closed = "closed"
    /\ cpc \in {"pause", "steady"}
    /\ cpc' = "exited" \/ cl_panic' = "close of nil channel"

\* C12: when client.run sees the close signal with workers subscribed, it
\* shuts every worker down, waits for them and closes cl.errors before it
\* returns; once cl.errors is closed no worker runs and no broker request
\* is made.
C12_ShutdownCompletes ==
    [][/\ (ObservesClose /\ consumers # {}) =>
             /\ cpc' = "exited"
             /\ errors_closed'
             /\ \A t \in consumers : workers'[t] = "none"
       /\ errors_closed =>
             /\ resp' = resp
             /\ \A t \in Topics : workers[t] # "running"]_vars

\* C13: once Close was called, client.run eventually ends, whatever it is
\* doing.
C13_CloseExits ==
    (cl_closed = "closed") ~> (cpc \in {"exited", "crashed"})

\* C14: calling Close a second time does not crash.
C14_CloseIdempotent ==
    cl_panic # "close of closed channel"

\* C15: a Consume call for a topic that has a worker is answered with an
\* error and leaves the map of consumers and the workers (their goroutines,
\* assignment slots and Errors channels) as they were.
C15_OneWorkerPerTopic ==
    [][\A t \in Topics :
          (ConsumeCall(t) /\ t \in consumers) =>
              /\ reply' = "already consumed"
              /\ consumers' = consumers
              /\ workers' = workers
              /\ slots' = slots
              /\ con_errors' = con_errors]_vars

\* C15 witness: a Consume call was refused while the first worker of its topic
\* runs on, after the application had read errors from that worker.
C15_Witness ==
    /\ reply = "already consumed"
    /\ \E t \in consumers : workers[t] = "running" /\ con_errors[t] > 0

\* C16: NewClient returns with the outcome of the first Join attempt: nil
\* when its Join response came without error, an error when the coordinator
\* lookup, the transport of JoinGroup or the Join error code failed it; once
\* the first attempt ended NewClient has returned.
C16_FirstJoinReported ==
    /\ early_rc = "ok" => first_join = "ok"
    /\ early_rc = "failed" => first_join \notin {"none", "ok"}
    /\ first_join # "none" => early_rc # "waiting"

\* C17: an error of a worker's OffsetCommit (transport or error code) is
\* delivered on that worker's own Errors channel.
C17_CommitErrorsOnWorker ==
    [][\A t \in Topics : \A err \in {"transport", "code"} :
          WorkerCommits(t, err) => con_errors'[t] > con_errors[t]]_vars

\* every broker request so far succeeded, the partitioner too, Close was not
\* called and no worker panicked
AllSucceeds ==
    /\ resp.err = "none" /\ resp.part # "failed"
    /\ cl_closed = "open" /\ cpc # "crashed"
    /\ \A t \in Topics : workers[t] # "removing"

\* C18: if every broker request succeeds the client eventually reaches the
\* heartbeat loop (Steady), leader or not.
C18_ReachesSteady ==
    ([]AllSucceeds) => <>(cpc = "steady")

\* C19: after a Join response naming this member leader and a successful
\* partitioner, the client goes on to send the SyncGroup request and has not
\* set pause.
C19_LeaderSyncs ==
    [][(JoinGroup /\ resp'.err = "none" /\ resp'.leader /\ resp'.part = "ok") =>
          (cpc' = "sync" /\ ~pause')]_vars

\* C20: a NotCoordinatorForConsumer error code in the response to JoinGroup,
\* SyncGroup or Heartbeat sends the client to RefreshCoordinator.
C20_NotCoordinatorRefreshes ==
    [][((JoinGroup \/ SyncGroup \/ Heartbeat) /\ resp'.err = "NotCoordinator") =>
          cpc' = "refresh"]_vars

\* C21: a transport error of JoinGroup, SyncGroup or Heartbeat does not crash
\* the client and sends it to the pause (directly, or through the refresh
\* with pause set) before the next coordinator lookup.
C21_TransportErrorPauses ==
    [][((JoinGroup \/ SyncGroup \/ Heartbeat) /\ resp'.err = "transport") =>
          /\ cpc' # "crashed"
          /\ cpc' = "pause" \/ (cpc' = "refresh" /\ pause')]_vars

\* C22: once the first Join succeeded, an error code other than
\* NotCoordinatorForConsumer in the response to JoinGroup, SyncGroup or
\* Heartbeat is delivered on cl.errors (unless its buffer is full) and the
\* client pauses before it joins again.
C22_ErrorCodeReportedAndPauses ==
    [][((JoinGroup \/ SyncGroup \/ Heartbeat) /\ resp'.err = "code" /\ early_rc = "ok") =>
          /\ cl_errors' = deliverError(cl_errors)
          /\ cpc' = "pause"]_vars

\* the worker handles the Done of the i-th unacknowledged message in this step
AcksMessage(i) ==
    /\ HandleDone
    /\ unacked' = SubSeq(unacked, 1, i - 1) \o SubSeq(unacked, i + 1, Len(unacked))

\* C29: an acknowledgement is dropped, leaving buckets, oldest and the
\* committable offset of every partition unchanged, when its partition is not
\* owned, when its offset is below the partition's oldest, or when its bucket
\* index is beyond the last bucket.
C29_StaleAckDropped ==
    [][\A i \in 1..Len(unacked) :
          LET m == unacked[i]
          IN  (/\ AcksMessage(i)
               /\ \/ m.partition \notin DOMAIN partitions
                  \/ m.offset < partitions[m.partition].oldest
                  \/ (m.offset - partitions[m.partition].oldest) \div BucketSize
                         >= Len(partitions[m.partition].buckets))
              => partitions' = partitions]_vars

\* C28: every bucket counter of every owned partition is between 0 and 64,
\* the application acknowledging each message it reads once per read.
C28_CountersInRange ==
    \A p \in DOMAIN partitions :
        \A i \in 1..Len(partitions[p].buckets) :
            partitions[p].buckets[i] \in 0..BucketSize

(***************************************************************************)
(* Claims about difference.                                                *)
(***************************************************************************)
\* the list s is sorted ascending, without repetition
Ascending(s) == \A i, j \in 1..Len(s) : i < j => s[i] < s[j]

\* C27: for owned partitions A and a duplicate-free list B, difference
\* returns added = B \ A and removed = A \ B, both sorted ascending and
\* disjoint, their union the symmetric difference of A and B; when B lists
\* exactly A both are empty.
C27_Difference ==
    d_out.called =>
        LET A == DOMAIN d_old
            B == SeqToSet(d_next)
            added == SeqToSet(d_out.added)
            removed == SeqToSet(d_out.removed)
        IN  /\ added = B \ A
            /\ removed = A \ B
            /\ Ascending(d_out.added) /\ Ascending(d_out.removed)
            /\ added \cap removed = {}
            /\ added \cup removed = (A \ B) \cup (B \ A)
            /\ A = B => (d_out.added = <<>> /\ d_out.removed = <<>>)

\* C27 witness: difference was called with an unsorted list and returned two
\* added and two removed partitions.
C27_Witness ==
    /\ d_out.called
    /\ Len(d_out.added) >= 2 /\ Len(d_out.removed) >= 2
    /\ ~Ascending(d_next)

(***************************************************************************)
(* Claims about the handoff of a generation.                               *)
(***************************************************************************)
\* the worker is inside assignment()
Reconciling == wpc \in {"remove", "adopt", "fetch", "start"}

\* the operations of kind k among the first n of the call of assignment()
OpsBefore(n, k) == {i \in 1..(n - 1) : ops[i].op = k}

\* C23: in a call of assignment() every close of a removed partition's reader
\* and the OffsetCommit come before the OffsetFetch and before the start of
\* any reader: when the fetch or a start is made every removed partition was
\* closed, is out of the map, and the commit for them was sent.
C23_RemovalsBeforeStarts ==
    \A j \in 1..Len(ops) :
        ops[j].op \in {"fetch", "start"} =>
            /\ \A i \in 1..Len(ops) : ops[i].op \in {"close", "commit"} => i < j
            /\ \A k \in 1..Len(cur.removed) :
                  /\ \E i \in OpsBefore(j, "close") : ops[i].parts = <<cur.removed[k]>>
                  /\ \E i \in OpsBefore(j, "commit") : ops[i].parts = cur.removed
                  /\ cur.removed[k] \notin DOMAIN partitions

\* C23 witness: a call of assignment() has closed and committed a removed
\* partition and then fetched and started an added one.
C23_Witness ==
    /\ ~Reconciling
    /\ \E i, j \in 1..Len(ops) : ops[i].op = "commit" /\ ops[j].op = "start"

\* C24: the OffsetCommit of a call of assignment() is one request with one
\* block per removed partition at its committable offset, it carries the
\* generation-id and member-id the worker held when the assignment arrived
\* and goes to the coordinator it held then; generation-id, coordinator and
\* member-id change together, after that commit, to those of the assignment.
C24_CommitInPreviousGeneration ==
    LET old == <<cur.prev.generation_id, cur.prev.coordinator, cur.prev.member_id>>
        new == <<cur.a.generation_id, cur.a.coordinator, cur.a.member_id>>
        now == <<generation_id, coor, member_id>>
        sent == {i \in 1..Len(ops) : ops[i].op = "commit"}
    IN  /\ Cardinality(sent) <= 1
        /\ \A i \in sent :
              /\ ops[i].parts = cur.removed
              /\ ops[i].offsets =
                     [k \in 1..Len(cur.removed) |-> cur.before[cur.removed[k]].offset]
              /\ <<ops[i].generation_id, ops[i].coordinator, ops[i].member_id>> = old
        /\ now \in {old, new}
        /\ (now # old /\ Len(cur.removed) > 0) => sent # {}
        /\ ~Reconciling => now = new

\* C24 witness: a call of assignment() committed a removed partition and the
\* worker then adopted another generation, coordinator and member-id.
C24_Witness ==
    /\ ~Reconciling
    /\ \E i \in 1..Len(ops) : ops[i].op = "commit"
    /\ generation_id = cur.a.generation_id
    /\ cur.a.coordinator # cur.prev.coordinator
    /\ cur.a.member_id # cur.prev.member_id

\* C25: the distribution of an assignment never blocks client.run, the
\* channel holds at most one assignment and only one newer than any the
\* worker received, and once an assignment was distributed the channel holds
\* it or the worker has taken it.
C25_OverwriteLatest ==
    /\ Len(assignments) <= AssignmentsCap
    /\ cpc \in {"distribute", "inner", "resend"} =>
          ENABLED (TrySend \/ InnerSelect \/ Resend)
    /\ \A i \in 1..Len(assignments) :
          /\ assignments[i].generation_id > cur.a.generation_id
          /\ assignments[i].generation_id <= cl_a.generation_id
    /\ (cpc \notin {"distribute", "inner", "resend"} /\ cl_a # NoAssignment) =>
          (assignments = <<cl_a>> \/ cur.a = cl_a)

\* C25 witness: the first assignment the worker received is the second one
\* distributed to it, the first one having been replaced in the channel.
C25_Witness ==
    /\ cur.prev.generation_id = 0
    /\ cur.a.generation_id > 2

\* C26: at most one Heartbeat request is outstanding, it carries the current
\* generation-id and member-id, the timer is not armed while a request is
\* outstanding and no timer is armed once the client left the heartbeat loop
\* on an error.
C26_HeartbeatCadence ==
    /\ Len(hb_out) <= 1
    /\ \A i \in 1..Len(hb_out) : hb_out[i] = HeartbeatRequest
    /\ heartbeat_timer = "armed" => (hb_out = <<>> /\ cpc = "steady")

\* C26 witness: a Heartbeat is outstanding in a generation the client reached
\* by joining again.
C26_Witness ==
    /\ Len(hb_out) = 1
    /\ cl_generation_id > 2
    /\ cl_member_id = "m2"

\* the partitions owned when assignment(a) was called that a assigns again
Kept == DOMAIN cur.before \cap SeqToSet(cur.a.parts)

\* C30: a partition owned before a call of assignment() and assigned again
\* keeps its reader, committable offset, oldest and buckets through the call,
\* and no close, OffsetCommit block, OffsetFetch or start is made for it.
C30_KeptPartitionsUntouched ==
    [][Reconciling =>
          \A p \in Kept :
              /\ p \in DOMAIN partitions'
              /\ partitions'[p] = cur.before[p]
              /\ reader'[p] = reader[p]
              /\ hStart'[p] = hStart[p]
              /\ committed'[p] = committed[p]
              /\ \A i \in 1..Len(ops') : \A k \in 1..Len(ops'[i].parts) :
                    ops'[i].parts[k] # p]_vars

\* C30 witness: a call of assignment() that removed or added a partition left
\* a partition with a bucket of outstanding offsets owned.
C30_Witness ==
    /\ ~Reconciling
    /\ cur.prev.generation_id > 0
    /\ \E i \in 1..Len(ops) : ops[i].op \in {"commit", "start"}
    /\ \E p \in Kept : p \in DOMAIN partitions /\ Len(partitions[p].buckets) > 0

(***************************************************************************)
(* Claims about the delivery loop and the acknowledgement handler.         *)
(***************************************************************************)
\* C32: after the send of a message to Messages succeeded the worker is back
\* in its main select and holds no message to send: a raw message is sent to
\* the application at most once.
C32_SentAtMostOnce ==
    [][SendMessage => (wpc' = "main" /\ msg' = NoMsg)]_vars

\* C33: handling an acknowledgement never indexes the buckets out of range:
\* the worker does not panic when the acknowledgement that completes the
\* oldest bucket removes the last bucket of its partition.
C33_DoneNeverPanics ==
    /\ panic # "index out of range"
    /\ wpc # "panicking"

(***************************************************************************)
(* Claims about the start of added partitions.                             *)
(***************************************************************************)
\* C31: when a call of assignment() is over, an added partition is either
\* owned, with committable offset and oldest at the offset OffsetFetch
\* returned for it and its reader started at that offset, or not owned, with
\* an error delivered for it; and a partition of the assignment that is not
\* owned when the assignment arrives is reported as added.
C31_StartsAtFetchedOffset ==
    /\ \A p \in SeqToSet(cur.a.parts) \ DOMAIN cur.before : p \in SeqToSet(cur.added)
    /\ ~Reconciling =>
          \A p \in SeqToSet(cur.added) :
              IF p \in DOMAIN partitions
              THEN /\ partitions[p].offset = cur.fetched[p]
                   /\ partitions[p].oldest = cur.fetched[p]
                   /\ hStart[p] = cur.fetched[p]
                   /\ \E i \in 1..Len(ops) :
                         /\ ops[i].op = "start" /\ ops[i].parts = <<p>>
                         /\ ops[i].offsets = <<cur.fetched[p]>>
              ELSE \E i \in 1..Len(ops) :
                      ops[i].op = "error" /\ p \in SeqToSet(ops[i].parts)

\* C31 witness: a partition of the previous assignment that was not started
\* then is added again and started at a fetched offset another member moved.
C31_Witness ==
    /\ ~Reconciling
    /\ \E p \in SeqToSet(cur.added) :
          /\ p \in SeqToSet(cur.prev.parts)
          /\ p \in DOMAIN partitions
          /\ partitions[p].offset > 0

====
